---- MODULE Spec2Model ----
(***************************************************************************)
(* Model of the chat orchestration of angular-firebase-chat:               *)
(*   ChatService      (app/services/chat.ts)                               *)
(*   OpenAIService / GeminiService history converters (services/gemini.ts) *)
(*   FirestoreService saveMessage / getUserMessages   (services/gemini.ts) *)
(* All code runs on the single JavaScript thread: every action below is    *)
(* the synchronous run of code between two suspension points (await /      *)
(* callback delivery).                                                     *)
(***************************************************************************)
EXTENDS Integers, Sequences, FiniteSets, TLC

\* ------------------------------------------------------------------ bounds
\* number of sendMessage invocations that pass validation in one behaviour
MaxCalls == 1
\* number of getUserMessages subscriptions opened in one behaviour
MaxSubs == 1
\* length of the history already stored in Firestore at construction
MaxPrior == 8
\* longest log handed to the history converters in SpecWin
MaxLogLen == 13
\* number of sendMessage invocations that overlap in SpecOverlap
MaxOverlap == 2

\* -------------------------------------------------------- program constants
\* convertedHistory.length > 8
HistoryThreshold == 8
\* convertedHistory.slice(-6)
RecentCount == 6
\* currentMessages.slice(-6) in ChatService.sendMessage
SliceCount == 6

VARIABLES
    currentUser,          \* auth.currentUser (NoUser = null)
    apiKey,               \* environment.openai.apiKey
    apiUrl,               \* environment.openai.apiUrl
    model,                \* environment.openai.model
    subjectMessages,      \* BehaviorSubject<ChatMessage[]> value
    assistantResponding,  \* BehaviorSubject<boolean> value
    busyLog,              \* values seen by a subscriber of assistantResponding$
    loadingHistory,       \* ChatService.loadingHistory
    subs,                 \* getUserMessages subscriptions (onSnapshot listeners)
    firestore,            \* documents of the 'messages' collection, in write order
    calls,                \* the sendMessage invocations and their local variables
    now,                  \* the clock read by new Date(); every reading is later
                          \* than the one before
    last,                 \* the step just taken: operation, emissions, external calls
    winIn, winOut, winBy, \* input, output and name of a history converter (SpecWin)
    httpIn, httpOut, httpBy \* what the HTTP request of an adapter's sendMessage came
                          \* back with, how sendMessage settled, the adapter (SpecHttp)

vars == <<currentUser, apiKey, apiUrl, model, subjectMessages, assistantResponding, busyLog,
          loadingHistory, subs, firestore, calls, now, last, winIn, winOut, winBy,
          httpIn, httpOut, httpBy>>

chatVars == <<currentUser, apiKey, apiUrl, model, subjectMessages, assistantResponding, busyLog,
              loadingHistory, subs, firestore, calls, now, last>>

winVars == <<winIn, winOut, winBy>>

httpVars == <<httpIn, httpOut, httpBy>>

pureVars == <<winVars, httpVars>>

configVars == <<apiKey, apiUrl, model>>

\* ------------------------------------------------------------------ values
NoUser == "null"
Users == {"u1"}
CallIds == 1..MaxCalls

\* texts are sequences of characters; " " stands for any white space
Space == " "
Texts == { <<Space, Space>>, <<Space, "h", Space>> }

PlaceholderKey == "TU_API_KEY_DE_OPENAI"
ApiKeys == { PlaceholderKey, "sk-key" }
\* a configured endpoint and model name
ConfiguredUrl == "apiUrl"
ConfiguredModel == "model"

ApologyText == <<"S","o","r","r","y">>
ResponseText == <<"r">>

NoMessage == [type |-> "none"]
\* no HTTP exchange
NoHttp == [kind |-> "none"]

\* ---------------------------------------------------------------- helpers
RECURSIVE TrimStart(_)
TrimStart(t) ==
    IF t = <<>> THEN <<>>
    ELSE IF Head(t) = Space THEN TrimStart(Tail(t)) ELSE t

RECURSIVE TrimEnd(_)
TrimEnd(t) ==
    IF t = <<>> THEN <<>>
    ELSE IF t[Len(t)] = Space THEN TrimEnd(SubSeq(t, 1, Len(t) - 1)) ELSE t

\* String.prototype.trim
Trim(t) == TrimEnd(TrimStart(t))

\* Array.prototype.slice(-n)
SliceLast(s, n) ==
    IF Len(s) <= n THEN s ELSE SubSeq(s, Len(s) - n + 1, Len(s))

\* faulty variant: the new message takes the place of the last one
SpreadOverwriting(list, m) ==
    IF list = <<>> THEN <<m>> ELSE [list EXCEPT ![Len(list)] = m]

\* [...list, m]
Spread(list, m) == Append(list, m)

\* a ChatMessage; key is the identity of the logical message (which call
\* created it), id is the Firestore document id (0 = absent)
\* key = <<kind, n>>: <<"prior", i>> the i-th stored message, <<"user", c>>,
\* <<"assistant", c>>, <<"error", c>> the messages call c creates
ChatMessage(key, uid, content, type, status, sentAt) ==
    [key |-> key, id |-> 0, userId |-> uid, content |-> content,
     type |-> type, status |-> status, sentAt |-> sentAt]

\* ------------------------------------------------------- FirestoreService
\* the validation at the head of saveMessage: a missing field throws
saveMessageInvalid(message) ==
    \/ message.userId = ""
    \/ message.content = <<>>
    \/ message.type = ""

\* the document addDoc writes: the message's fields, status || 'sent', and
\* the document id Firestore assigns
messageToSave(message, docId) ==
    [message EXCEPT !.id = docId,
                    !.status = IF message.status = "" THEN "sent" ELSE message.status]

\* outcomes of an awaited saveMessage: TRUE = resolved, FALSE = rejected
saveMessageOutcomes(message) ==
    IF saveMessageInvalid(message) THEN {FALSE} ELSE {TRUE, FALSE}

RECURSIVE InsertBySentAt(_, _)
InsertBySentAt(sorted, m) ==
    IF sorted = <<>> THEN <<m>>
    ELSE IF sorted[Len(sorted)].sentAt <= m.sentAt THEN Append(sorted, m)
    ELSE Append(InsertBySentAt(SubSeq(sorted, 1, Len(sorted) - 1), m),
                sorted[Len(sorted)])

\* messages.sort((a, b) => a.sentAt.getTime() - b.sentAt.getTime()), a
\* stable sort of the snapshot's documents
RECURSIVE SortBySentAt(_)
SortBySentAt(s) ==
    IF s = <<>> THEN <<>>
    ELSE InsertBySentAt(SortBySentAt(SubSeq(s, 1, Len(s) - 1)), s[Len(s)])

\* what the onSnapshot callback of getUserMessages(userId) hands to next()
getUserMessages(docs, userId) ==
    SortBySentAt(SelectSeq(docs, LAMBDA d : d.userId = userId))

\* a successful write gives every open listener of that user a snapshot to
\* deliver
MarkDirty(ss, userId) ==
    [i \in 1..Len(ss) |->
        IF ss[i].open /\ ss[i].userId = userId
        THEN [ss[i] EXCEPT !.dirty = TRUE] ELSE ss[i]]

\* ------------------------------------------------- history converters
RoleOpenAI(msg) == IF msg.type = "user" THEN "user" ELSE "assistant"

RoleGemini(msg) == IF msg.type = "user" THEN "user" ELSE "model"

\* faulty variant: the history is trimmed as soon as it is longer than the slice
convertHistoryToOpenAIEager(messages) ==
    LET convertedHistory ==
            [i \in 1..Len(messages) |->
                [role |-> RoleOpenAI(messages[i]), content |-> messages[i].content]]
    IN  IF Len(convertedHistory) > RecentCount
        THEN LET lastMessages == SliceLast(convertedHistory, RecentCount)
             IN  IF Len(lastMessages) > 0 /\ lastMessages[1].role = "assistant"
                 THEN Tail(lastMessages)
                 ELSE lastMessages
        ELSE convertedHistory

\* faulty variant: the pairing fix-up is also applied at the tail, a trailing
\* user message of the window is dropped
convertHistoryToOpenAITailPaired(messages) ==
    LET convertedHistory ==
            [i \in 1..Len(messages) |->
                [role |-> RoleOpenAI(messages[i]), content |-> messages[i].content]]
    IN  IF Len(convertedHistory) > HistoryThreshold
        THEN LET lastMessages == SliceLast(convertedHistory, RecentCount)
                 paired == IF Len(lastMessages) > 0 /\ lastMessages[1].role = "assistant"
                           THEN Tail(lastMessages)
                           ELSE lastMessages
             IN  IF Len(paired) > 0 /\ paired[Len(paired)].role = "user"
                 THEN SubSeq(paired, 1, Len(paired) - 1)
                 ELSE paired
        ELSE convertedHistory

\* OpenAIService.convertHistoryToOpenAI
convertHistoryToOpenAI(messages) ==
    LET convertedHistory ==
            [i \in 1..Len(messages) |->
                [role |-> RoleOpenAI(messages[i]), content |-> messages[i].content]]
    IN  IF Len(convertedHistory) > HistoryThreshold
        THEN LET lastMessages == SliceLast(convertedHistory, RecentCount)
             IN  IF Len(lastMessages) > 0 /\ lastMessages[1].role = "assistant"
                 THEN Tail(lastMessages)
                 ELSE lastMessages
        ELSE convertedHistory

\* faulty variant: the Gemini converter keeps a leading 'model' message
convertHistoryToGeminiUnpaired(messages) ==
    LET convertedHistory ==
            [i \in 1..Len(messages) |->
                [role |-> RoleGemini(messages[i]),
                 parts |-> << [text |-> messages[i].content] >>]]
    IN  IF Len(convertedHistory) > HistoryThreshold
        THEN SliceLast(convertedHistory, RecentCount)
        ELSE convertedHistory

\* GeminiService.convertHistoryToGemini
convertHistoryToGemini(messages) ==
    LET convertedHistory ==
            [i \in 1..Len(messages) |->
                [role |-> RoleGemini(messages[i]),
                 parts |-> << [text |-> messages[i].content] >>]]
    IN  IF Len(convertedHistory) > HistoryThreshold
        THEN LET lastMessages == SliceLast(convertedHistory, RecentCount)
             IN  IF Len(lastMessages) > 0 /\ lastMessages[1].role = "model"
                 THEN Tail(lastMessages)
                 ELSE lastMessages
        ELSE convertedHistory

\* the configuration check at the head of OpenAIService.sendMessage
apiKeyMissing(key) == key = "" \/ key = PlaceholderKey

\* OpenAIService.verifyConfiguration: !!(apiKey && apiUrl && model)
verifyConfiguration(key, url, mdl) == key # "" /\ url # "" /\ mdl # ""

\* outcomes of the awaited openaiService.sendMessage: TRUE = a response
\* text, FALSE = an error; without a key it can only fail
sendMessageOutcomes(key) == IF apiKeyMissing(key) THEN {FALSE} ELSE {TRUE, FALSE}

\* ------------------------------------------------------------ ChatService
\* faulty variant: the authentication check is missing
NotAuthenticatedSkipped(user) == FALSE

\* if (!currentUser)
NotAuthenticated(user) == user = NoUser

\* faulty variant: the emptiness check without trim()
IsBlankUntrimmed(messageContent) == messageContent = <<>>

\* if (!messageContent.trim())
IsBlank(messageContent) == Trim(messageContent) = <<>>

\* faulty variant: the content is stored as typed, not trimmed
NewUserMessageUntrimmed(c, uid, messageContent, t) ==
    ChatMessage(<<"user", c>>, uid, messageContent, "user", "sending", t)

\* const userMessage: ChatMessage = {...}
NewUserMessage(c, uid, messageContent, t) ==
    ChatMessage(<<"user", c>>, uid, Trim(messageContent), "user", "sending", t)

\* const assistantMessage: ChatMessage = {...}
NewAssistantMessage(c, uid, assistantResponse, t) ==
    ChatMessage(<<"assistant", c>>, uid, assistantResponse, "assistant", "sent", t)

\* const errorMessage: ChatMessage = {...}
NewErrorMessage(c, uid, t) ==
    ChatMessage(<<"error", c>>, uid, ApologyText, "assistant", "error", t)

\* this.openaiService.convertHistoryToOpenAI(currentMessages.slice(-6))
HistoryForOpenAI(currentMessages) ==
    convertHistoryToOpenAI(SliceLast(currentMessages, SliceCount))

\* faulty variant: readiness does not ask for the configuration
isChatReadyUserOnly(user, key, url, mdl) == user # NoUser

\* ChatService.isChatReady: userAuthenticated && openaiConfigured
isChatReady(user, key, url, mdl) ==
    LET userAuthenticated == user # NoUser
        openaiConfigured == verifyConfiguration(key, url, mdl)
    IN  userAuthenticated /\ openaiConfigured

\* faulty variant: the save of the error message can fail, as a real save can
MockSaveMayFail == {TRUE, FALSE}

\* firestoreServiceMock.saveMessage: Promise.resolve(), nothing is written
MockSaveOutcomes == {TRUE}

\* faulty variant: the finally block leaves the flag set
FinallyRespondingStuck == TRUE

\* finally { this.assistantResponding.next(false) }
FinallyResponding == FALSE

\* the record of the step just taken: the operation, the sendMessage call
\* it belongs to (0 = none), the observables that emitted, the external
\* services called, and how the sendMessage promise settled in it ("" = not)
\* or what a query returned
Step(op, c, emitted, io, outcome) ==
    [op |-> op, call |-> c, arg |-> <<>>, emitted |-> emitted, io |-> io,
     outcome |-> outcome]

\* the step of a sendMessage(messageContent) invocation
SendStep(c, messageContent, emitted, io, outcome) ==
    [Step("sendMessage", c, emitted, io, outcome) EXCEPT !.arg = messageContent]

\* a sendMessage call that has not started; calls hold the locals of the
\* invocations that passed validation, while they are in flight
IdleCall ==
    [pc |-> "idle", text |-> <<>>, uid |-> NoUser, userMessage |-> NoMessage,
     history |-> <<>>, assistantMessage |-> NoMessage, errorMessage |-> NoMessage,
     error |-> ""]

SettledCall == [IdleCall EXCEPT !.pc = "settled"]

\* the messages already stored for user u1 when the application starts
PriorHistory(n) ==
    [i \in 1..n |->
        [key |-> <<"prior", i>>, id |-> i, userId |-> "u1",
         content |-> IF i % 2 = 1 THEN <<"q">> ELSE ResponseText,
         type |-> IF i % 2 = 1 THEN "user" ELSE "assistant",
         status |-> "sent", sentAt |-> i]]

ClockStart == MaxPrior + 1

Init ==
    /\ currentUser = NoUser
    /\ apiKey \in ApiKeys
    /\ apiUrl = ConfiguredUrl
    /\ model = ConfiguredModel
    /\ subjectMessages = <<>>
    /\ assistantResponding = FALSE
    /\ busyLog = <<FALSE>>
    /\ loadingHistory = FALSE
    /\ subs = <<>>
    /\ firestore = PriorHistory(MaxPrior)
    /\ calls = [c \in CallIds |-> IdleCall]
    /\ now = ClockStart
    /\ last = Step("init", 0, <<>>, <<>>, "")
    /\ winIn = <<>>
    /\ winOut = <<>>
    /\ winBy = "none"
    /\ httpIn = NoHttp
    /\ httpOut = NoHttp
    /\ httpBy = "none"

\* faulty variant: a call starts only when no other call is in flight
MayStartCallSerialized(cs, c) ==
    /\ c \in DOMAIN cs
    /\ cs[c].pc = "idle"
    /\ \A d \in DOMAIN cs : d < c => cs[d].pc = "settled"

\* sendMessage has no guard against re-entry: a new invocation starts
\* whatever the earlier ones are doing; it takes the first unused record
MayStartCall(cs, c) ==
    /\ c \in DOMAIN cs
    /\ cs[c].pc = "idle"
    /\ \A d \in DOMAIN cs : d < c => cs[d].pc # "idle"

\* sendMessage(messageContent), up to its first await; an invocation that
\* passes validation becomes call c, one that does not has c = 0
SendMessage(c, messageContent) ==
    /\ IF NotAuthenticated(currentUser) \/ IsBlank(messageContent)
       THEN c = 0
       ELSE MayStartCall(calls, c)
    /\ IF NotAuthenticated(currentUser)
       THEN /\ last' = SendStep(c, messageContent, <<>>, <<>>,
                                "rejected: User not authenticated")
            /\ UNCHANGED <<subjectMessages, calls, now>>
       ELSE IF IsBlank(messageContent)
       THEN /\ last' = SendStep(c, messageContent, <<>>, <<>>, "resolved")
            /\ UNCHANGED <<subjectMessages, calls, now>>
       ELSE LET userMessage == NewUserMessage(c, currentUser, messageContent, now)
            IN  /\ subjectMessages' = Spread(subjectMessages, userMessage)
                /\ calls' = [calls EXCEPT ![c] =
                       [@ EXCEPT !.pc = "saveUser", !.text = messageContent,
                                 !.uid = currentUser, !.userMessage = userMessage]]
                /\ now' = now + 1
                /\ last' = SendStep(c, messageContent, <<"messages$">>,
                                    <<"firestore.saveMessage">>, "")
    /\ UNCHANGED <<currentUser, configVars, assistantResponding, busyLog,
                   loadingHistory, subs, firestore, pureVars>>

\* faulty variant: a failed save of the user message is not caught
AfterUserSaveThrowing(ok) == IF ok THEN "generate" ELSE "saveError"

\* try { await saveMessage(userMessage) } catch (firestoreError) { }: the
\* call goes on to the generation step whether the save resolved or not
AfterUserSave(ok) == "generate"

\* faulty variant: the generation backend is called without the busy flag
\* having been set
UserSaveSettlesSilent(c, ok) ==
    /\ calls[c].pc = "saveUser"
    /\ ok \in saveMessageOutcomes(calls[c].userMessage)
    /\ firestore' = IF ok
                    THEN Append(firestore,
                                messageToSave(calls[c].userMessage, Len(firestore) + 1))
                    ELSE firestore
    /\ subs' = IF ok THEN MarkDirty(subs, calls[c].userMessage.userId) ELSE subs
    /\ calls' = [calls EXCEPT ![c] =
           [@ EXCEPT !.pc = "generate",
                     !.history = HistoryForOpenAI(subjectMessages)]]
    /\ last' = Step("userSaveSettled", c, <<>>, <<"openai.sendMessage">>, "")
    /\ UNCHANGED <<currentUser, configVars, subjectMessages, assistantResponding,
                   busyLog, loadingHistory, now, pureVars>>

\* the awaited save of the user message settles (ok = resolved); the call
\* runs on to the await of the generation backend
UserSaveSettles(c, ok) ==
    /\ calls[c].pc = "saveUser"
    /\ ok \in saveMessageOutcomes(calls[c].userMessage)
    /\ firestore' = IF ok
                    THEN Append(firestore,
                                messageToSave(calls[c].userMessage, Len(firestore) + 1))
                    ELSE firestore
    /\ subs' = IF ok THEN MarkDirty(subs, calls[c].userMessage.userId) ELSE subs
    /\ assistantResponding' = TRUE
    /\ busyLog' = Append(busyLog, TRUE)
    /\ calls' = [calls EXCEPT ![c] =
           [@ EXCEPT !.pc = AfterUserSave(ok),
                     !.history = HistoryForOpenAI(subjectMessages)]]
    /\ last' = Step("userSaveSettled", c, <<"assistantResponding$">>,
                    <<"openai.sendMessage">>, "")
    /\ UNCHANGED <<currentUser, configVars, subjectMessages, loadingHistory, now, pureVars>>

\* the error openaiService.sendMessage fails with
GenerationError(key) ==
    IF apiKeyMissing(key)
    THEN "rejected: OpenAI API Key is not configured"
    ELSE "rejected: Error connecting to OpenAI"

\* the awaited generation call settles (locals no longer read are dropped
\* from the call's record): on a response the assistant message
\* is appended and its save awaited; on an error the catch block builds the
\* error message and awaits the save of it
GenerationSettles(c, ok) ==
    /\ calls[c].pc = "generate"
    /\ ok \in sendMessageOutcomes(apiKey)
    /\ IF ok
       THEN LET assistantMessage ==
                    NewAssistantMessage(c, calls[c].uid, ResponseText, now)
            IN  /\ subjectMessages' = Spread(subjectMessages, assistantMessage)
                /\ calls' = [calls EXCEPT ![c] =
                       [@ EXCEPT !.pc = "saveAssistant", !.text = <<>>,
                                 !.history = <<>>, !.userMessage = NoMessage,
                                 !.assistantMessage = assistantMessage]]
                /\ last' = Step("generationResolved", c, <<"messages$">>,
                                <<"firestore.saveMessage">>, "")
       ELSE /\ calls' = [calls EXCEPT ![c] =
                   [@ EXCEPT !.pc = "saveError", !.text = <<>>,
                             !.history = <<>>, !.userMessage = NoMessage,
                             !.errorMessage = NewErrorMessage(c, calls[c].uid, now),
                             !.error = GenerationError(apiKey)]]
            /\ last' = Step("generationRejected", c, <<>>, <<"mock.saveMessage">>, "")
            /\ UNCHANGED subjectMessages
    /\ now' = now + 1
    /\ UNCHANGED <<currentUser, configVars, assistantResponding, busyLog,
                   loadingHistory, subs, firestore, pureVars>>

\* the awaited save of the assistant message settles; its failure is
\* swallowed; finally; sendMessage resolves
AssistantSaveSettles(c, ok) ==
    /\ calls[c].pc = "saveAssistant"
    /\ ok \in saveMessageOutcomes(calls[c].assistantMessage)
    /\ firestore' = IF ok
                    THEN Append(firestore,
                                messageToSave(calls[c].assistantMessage,
                                              Len(firestore) + 1))
                    ELSE firestore
    /\ subs' = IF ok THEN MarkDirty(subs, calls[c].assistantMessage.userId) ELSE subs
    /\ assistantResponding' = FinallyResponding
    /\ busyLog' = Append(busyLog, FinallyResponding)
    /\ calls' = [calls EXCEPT ![c] = SettledCall]
    /\ last' = Step("assistantSaveSettled", c, <<"assistantResponding$">>, <<>>,
                    "resolved")
    /\ UNCHANGED <<currentUser, configVars, subjectMessages, loadingHistory, now, pureVars>>

\* the awaited firestoreServiceMock.saveMessage(errorMessage) settles; had
\* it failed, the error message would be appended to the list; throw error;
\* finally; sendMessage rejects
ErrorSaveSettles(c, ok) ==
    /\ calls[c].pc = "saveError"
    /\ ok \in MockSaveOutcomes
    /\ subjectMessages' = IF ok THEN subjectMessages
                          ELSE Spread(subjectMessages, calls[c].errorMessage)
    /\ assistantResponding' = FinallyResponding
    /\ busyLog' = Append(busyLog, FinallyResponding)
    /\ calls' = [calls EXCEPT ![c] = SettledCall]
    /\ last' = Step("errorSaveSettled", c,
                    IF ok THEN <<"assistantResponding$">>
                    ELSE <<"messages$", "assistantResponding$">>, <<>>,
                    calls[c].error)
    /\ UNCHANGED <<currentUser, configVars, loadingHistory, subs, firestore, now, pureVars>>

\* faulty variant: clearChat also resets the busy flag
ClearChatResetsBusy ==
    /\ subjectMessages' = <<>>
    /\ assistantResponding' = FALSE
    /\ busyLog' = Append(busyLog, FALSE)
    /\ last' = Step("clearChat", 0, <<"messages$", "assistantResponding$">>, <<>>, "")
    /\ UNCHANGED <<currentUser, configVars, loadingHistory, subs, firestore, calls, now,
                   pureVars>>

\* clearChat()
ClearChat ==
    /\ subjectMessages' = <<>>
    /\ last' = Step("clearChat", 0, <<"messages$">>, <<>>, "")
    /\ UNCHANGED <<currentUser, configVars, assistantResponding, busyLog, loadingHistory,
                   subs, firestore, calls, now, pureVars>>

\* faulty variant: a call made while loadingHistory leaves through the
\* catch path, which resets the flag and the list
InitializeChatResetting(userId) ==
    /\ IF loadingHistory
       THEN /\ loadingHistory' = FALSE
            /\ subjectMessages' = <<>>
            /\ last' = Step("initializeChat", 0, <<"messages$">>, <<>>, "")
            /\ UNCHANGED subs
       ELSE /\ loadingHistory' = TRUE
            /\ subs' = Append(subs, [userId |-> userId, open |-> TRUE, dirty |-> TRUE])
            /\ last' = Step("initializeChat", 0, <<>>, <<"firestore.getUserMessages">>, "")
            /\ UNCHANGED subjectMessages
    /\ UNCHANGED <<currentUser, configVars, assistantResponding, busyLog,
                   firestore, calls, now, pureVars>>

\* initializeChat(userId): a no-op while loadingHistory, else it subscribes
\* to getUserMessages(userId); the listener's first snapshot comes later
InitializeChat(userId) ==
    /\ IF loadingHistory
       THEN /\ last' = Step("initializeChat", 0, <<>>, <<>>, "")
            /\ UNCHANGED <<loadingHistory, subs>>
       ELSE /\ loadingHistory' = TRUE
            /\ subs' = Append(subs, [userId |-> userId, open |-> TRUE, dirty |-> TRUE])
            /\ last' = Step("initializeChat", 0, <<>>, <<"firestore.getUserMessages">>, "")
    /\ UNCHANGED <<currentUser, configVars, subjectMessages, assistantResponding, busyLog,
                   firestore, calls, now, pureVars>>

\* initializeChat(userId) in a behaviour that opens at most n subscriptions
InitializeChatBounded(n, userId) ==
    /\ loadingHistory \/ Len(subs) < n
    /\ InitializeChat(userId)

\* the component's startChat(): initializeChat(this.user.uid) when a user is
\* signed in
StartChat(n) ==
    /\ currentUser # NoUser
    /\ InitializeChatBounded(n, currentUser)

\* the next callback of subscription i: a snapshot of the user's documents
SnapshotNext(i) ==
    /\ i \in 1..Len(subs)
    /\ subs[i].open /\ subs[i].dirty
    /\ subjectMessages' = getUserMessages(firestore, subs[i].userId)
    /\ loadingHistory' = FALSE
    /\ subs' = [subs EXCEPT ![i] = [@ EXCEPT !.dirty = FALSE]]
    /\ last' = Step("snapshotNext", 0, <<"messages$">>, <<>>, "")
    /\ UNCHANGED <<currentUser, configVars, assistantResponding, busyLog, firestore,
                   calls, now, pureVars>>

\* faulty variant: the error callback leaves the list and the flag alone
SnapshotErrorIgnored(i) ==
    /\ i \in 1..Len(subs)
    /\ subs[i].open
    /\ subs' = [subs EXCEPT ![i] = [@ EXCEPT !.open = FALSE, !.dirty = FALSE]]
    /\ last' = Step("snapshotError", 0, <<>>, <<>>, "")
    /\ UNCHANGED <<currentUser, configVars, subjectMessages, loadingHistory,
                   assistantResponding, busyLog, firestore, calls, now, pureVars>>

\* the error callback of subscription i; an errored listener is closed
SnapshotError(i) ==
    /\ i \in 1..Len(subs)
    /\ subs[i].open
    /\ loadingHistory' = FALSE
    /\ subjectMessages' = <<>>
    /\ subs' = [subs EXCEPT ![i] = [@ EXCEPT !.open = FALSE, !.dirty = FALSE]]
    /\ last' = Step("snapshotError", 0, <<"messages$">>, <<>>, "")
    /\ UNCHANGED <<currentUser, configVars, assistantResponding, busyLog, firestore,
                   calls, now, pureVars>>

\* isChatReady(): a query
IsChatReady ==
    /\ last' = Step("isChatReady", 0, <<>>, <<>>,
                    IF isChatReady(currentUser, apiKey, apiUrl, model)
                    THEN "true" ELSE "false")
    /\ UNCHANGED <<currentUser, configVars, subjectMessages, assistantResponding,
                   busyLog, loadingHistory, subs, firestore, calls, now, pureVars>>

\* auth.currentUser changes: sign-in
Login(u) ==
    /\ currentUser = NoUser
    /\ currentUser' = u
    /\ last' = Step("login", 0, <<>>, <<>>, "")
    /\ UNCHANGED <<configVars, subjectMessages, assistantResponding, busyLog,
                   loadingHistory, subs, firestore, calls, now, pureVars>>

\* auth.currentUser changes: sign-out
Logout ==
    /\ currentUser # NoUser
    /\ currentUser' = NoUser
    /\ last' = Step("logout", 0, <<>>, <<>>, "")
    /\ UNCHANGED <<configVars, subjectMessages, assistantResponding, busyLog,
                   loadingHistory, subs, firestore, calls, now, pureVars>>

Next ==
    \/ \E c \in 0..MaxCalls, t \in Texts : SendMessage(c, t)
    \/ \E c \in CallIds, ok \in BOOLEAN : UserSaveSettles(c, ok)
    \/ \E c \in CallIds, ok \in BOOLEAN : GenerationSettles(c, ok)
    \/ \E c \in CallIds, ok \in BOOLEAN : AssistantSaveSettles(c, ok)
    \/ \E c \in CallIds, ok \in BOOLEAN : ErrorSaveSettles(c, ok)
    \/ ClearChat
    \/ \E u \in Users : InitializeChatBounded(MaxSubs, u)
    \/ \E i \in 1..MaxSubs : SnapshotNext(i)
    \/ \E i \in 1..MaxSubs : SnapshotError(i)
    \/ \E u \in Users : Login(u)
    \/ Logout

Spec == Init /\ [][Next]_vars

\* ------------------------------------------ the history converters alone
\* SpecWin applies a converter to every log of at most MaxLogLen messages
Roles == {"user", "assistant"}

RoleLists == UNION { [1..n -> Roles] : n \in 0..MaxLogLen }

\* the log whose i-th message has role roles[i] and a content of its own
LogOf(roles) ==
    [i \in 1..Len(roles) |->
        [key |-> <<"prior", i>>, id |-> i, userId |-> "u1",
         content |-> <<"m", ToString(i)>>, type |-> roles[i],
         status |-> "sent", sentAt |-> i]]

InitWin ==
    /\ currentUser = NoUser
    /\ apiKey = "sk-key"
    /\ apiUrl = ConfiguredUrl
    /\ model = ConfiguredModel
    /\ subjectMessages = <<>>
    /\ assistantResponding = FALSE
    /\ busyLog = <<FALSE>>
    /\ loadingHistory = FALSE
    /\ subs = <<>>
    /\ firestore = <<>>
    /\ calls = [c \in CallIds |-> IdleCall]
    /\ now = ClockStart
    /\ last = Step("init", 0, <<>>, <<>>, "")
    /\ \E roles \in RoleLists : winIn = LogOf(roles)
    /\ winOut = <<>>
    /\ winBy = "none"
    /\ httpIn = NoHttp
    /\ httpOut = NoHttp
    /\ httpBy = "none"

ApplyOpenAI ==
    /\ winBy = "none"
    /\ winOut' = convertHistoryToOpenAI(winIn)
    /\ winBy' = "openai"
    /\ UNCHANGED <<winIn, chatVars, httpVars>>

ApplyGemini ==
    /\ winBy = "none"
    /\ winOut' = convertHistoryToGemini(winIn)
    /\ winBy' = "gemini"
    /\ UNCHANGED <<winIn, chatVars, httpVars>>

NextWin == ApplyOpenAI \/ ApplyGemini

SpecWin == InitWin /\ [][NextWin]_vars

\* --------------------------------------------------- overlapping sends
\* SpecOverlap is the chat of a signed-in user after the Chat component has
\* called initializeChat(uid): up to MaxOverlap sendMessage invocations run
\* at once, interleaved at their awaits with each other and with the
\* snapshots of the one live getUserMessages listener
OverlapIds == 1..MaxOverlap

\* the texts that pass the validation of sendMessage
NonBlankTexts == { t \in Texts : ~ IsBlank(t) }

InitOverlap ==
    /\ currentUser = "u1"
    /\ apiKey = "sk-key"
    /\ apiUrl = ConfiguredUrl
    /\ model = ConfiguredModel
    /\ subjectMessages = <<>>
    /\ assistantResponding = FALSE
    /\ busyLog = <<FALSE>>
    /\ loadingHistory = TRUE
    /\ subs = << [userId |-> "u1", open |-> TRUE, dirty |-> TRUE] >>
    /\ firestore = PriorHistory(MaxPrior)
    /\ calls = [c \in OverlapIds |-> IdleCall]
    /\ now = ClockStart
    /\ last = Step("initializeChat", 0, <<>>, <<"firestore.getUserMessages">>, "")
    /\ winIn = <<>>
    /\ winOut = <<>>
    /\ winBy = "none"
    /\ httpIn = NoHttp
    /\ httpOut = NoHttp
    /\ httpBy = "none"

NextOverlap ==
    \/ \E c \in OverlapIds, t \in NonBlankTexts : SendMessage(c, t)
    \/ \E c \in OverlapIds, ok \in BOOLEAN : UserSaveSettles(c, ok)
    \/ \E c \in OverlapIds, ok \in BOOLEAN : GenerationSettles(c, ok)
    \/ \E c \in OverlapIds, ok \in BOOLEAN : AssistantSaveSettles(c, ok)
    \/ \E c \in OverlapIds, ok \in BOOLEAN : ErrorSaveSettles(c, ok)
    \/ \E i \in 1..MaxSubs : SnapshotNext(i)

SpecOverlap == InitOverlap /\ [][NextOverlap]_vars

\* ------------------------------------------------ the readiness query alone
\* SpecReady asks isChatReady under every configuration of the environment
InitReady ==
    /\ currentUser = NoUser
    /\ apiKey \in ApiKeys \cup {""}
    /\ apiUrl \in {"", ConfiguredUrl}
    /\ model \in {"", ConfiguredModel}
    /\ subjectMessages = <<>>
    /\ assistantResponding = FALSE
    /\ busyLog = <<FALSE>>
    /\ loadingHistory = FALSE
    /\ subs = <<>>
    /\ firestore = PriorHistory(MaxPrior)
    /\ calls = [c \in CallIds |-> IdleCall]
    /\ now = ClockStart
    /\ last = Step("init", 0, <<>>, <<>>, "")
    /\ winIn = <<>>
    /\ winOut = <<>>
    /\ winBy = "none"
    /\ httpIn = NoHttp
    /\ httpOut = NoHttp
    /\ httpBy = "none"

NextReady ==
    \/ IsChatReady
    \/ \E u \in Users : InitializeChatBounded(MaxSubs, u)
    \/ \E i \in 1..MaxSubs : SnapshotNext(i)
    \/ \E u \in Users : Login(u)
    \/ Logout

SpecReady == InitReady /\ [][NextReady]_vars

\* ---------------------------------------------------------------- claims
InFlight(c) == calls[c].pc \notin {"idle", "settled"}

HasKey(list, key) == \E i \in 1..Len(list) : list[i].key = key

IsApology(m) ==
    m.type = "assistant" /\ m.status = "error" /\ m.content = ApologyText

WhitespaceOnly(t) == \A i \in 1..Len(t) : t[i] = Space

\* r is t without its leading and trailing white space
IsTrimOf(r, t) ==
    /\ r # <<>>
    /\ r[1] # Space
    /\ r[Len(r)] # Space
    /\ \E i \in 0..Len(t) :
          /\ i + Len(r) <= Len(t)
          /\ SubSeq(t, i + 1, i + Len(r)) = r
          /\ \A k \in 1..Len(t) : (k <= i \/ k > i + Len(r)) => t[k] = Space

\* C1: when the generation backend rejects, then once sendMessage has
\* settled the message list holds an assistant message with status 'error'
\* and the apology text, and sendMessage has rejected.
C1_ErrorNonLoss ==
    last.op = "errorSaveSettled" =>
        /\ \E i \in 1..Len(subjectMessages) : IsApology(subjectMessages[i])
        /\ last.outcome \notin {"", "resolved"}

\* C2: the user message a sendMessage call appended stays in the message
\* list through every later step of that call, unless clearChat is called.
C2_UserInputKept ==
    [][\A c \in CallIds :
          (InFlight(c) /\ HasKey(subjectMessages, <<"user", c>>)
             /\ last'.op # "clearChat")
          => HasKey(subjectMessages', <<"user", c>>)]_vars

\* C3: for a single sendMessage call that passes validation a subscriber of
\* assistantResponding$ sees false, then true from the end of the user
\* save on, then false when the call settles; the emission of false is the
\* last thing a settling call does.
C3_BusyBracketing ==
    /\ (\A c \in CallIds : c > 1 => calls[c].pc = "idle") =>
          /\ calls[1].pc \in {"idle", "saveUser"} => busyLog = <<FALSE>>
          /\ calls[1].pc \in {"generate", "saveAssistant", "saveError"}
                => busyLog = <<FALSE, TRUE>>
          /\ calls[1].pc = "settled" => busyLog = <<FALSE, TRUE, FALSE>>
          /\ assistantResponding = busyLog[Len(busyLog)]
    /\ last.op \in {"assistantSaveSettled", "errorSaveSettled"} =>
          /\ last.outcome # ""
          /\ last.emitted[Len(last.emitted)] = "assistantResponding$"
          /\ busyLog[Len(busyLog)] = FALSE

C3_Witness ==
    /\ calls[1].pc = "settled"
    /\ \A c \in CallIds : c > 1 => calls[c].pc = "idle"
    /\ last.op = "errorSaveSettled"
    /\ busyLog = <<FALSE, TRUE, FALSE>>

\* C4: at the first suspension point of a sendMessage call that passed
\* validation, before any save has settled, the list ends with the new
\* user message: status 'sending', trimmed content, the current user's id.
C4_OptimisticVisibility ==
    (last.op = "sendMessage" /\ last.outcome = "") =>
        /\ calls[last.call].pc = "saveUser"
        /\ ~ HasKey(firestore, <<"user", last.call>>)
        /\ Len(subjectMessages) > 0
        /\ LET m == subjectMessages[Len(subjectMessages)]
           IN  /\ m.key = <<"user", last.call>>
               /\ m.type = "user"
               /\ m.status = "sending"
               /\ IsTrimOf(m.content, last.arg)
               /\ m.userId = currentUser
               /\ currentUser # NoUser

C4_Witness ==
    /\ last.op = "sendMessage"
    /\ last.outcome = ""
    /\ last.arg = <<Space, "h", Space>>
    /\ Len(subjectMessages) > MaxPrior
    /\ subjectMessages[Len(subjectMessages)].content = <<"h">>

\* C5: sendMessage with no current user rejects with the not-authenticated
\* error and changes nothing: list and busy flag unchanged, no emission,
\* no persistence call, no generation call.
C5_AuthPrecondition ==
    [][(last'.op = "sendMessage" /\ currentUser = NoUser) =>
          /\ last'.outcome = "rejected: User not authenticated"
          /\ last'.emitted = <<>>
          /\ last'.io = <<>>
          /\ UNCHANGED <<subjectMessages, assistantResponding, busyLog, firestore,
                         calls, subs, loadingHistory>>]_vars

C5_Witness ==
    /\ last.op = "sendMessage"
    /\ last.outcome = "rejected: User not authenticated"
    /\ ~ WhitespaceOnly(last.arg)
    /\ currentUser = NoUser
    /\ subjectMessages # <<>>
    /\ assistantResponding

\* C6 as stated: sendMessage with whitespace-only text changes nothing and
\* resolves without error in every state, also with no user authenticated.
C6_EmptyInputAlwaysResolves ==
    [][(last'.op = "sendMessage" /\ WhitespaceOnly(last'.arg)) =>
          /\ last'.outcome = "resolved"
          /\ last'.emitted = <<>>
          /\ last'.io = <<>>
          /\ UNCHANGED <<subjectMessages, assistantResponding, busyLog, firestore,
                         calls, subs, loadingHistory>>]_vars

\* C6 amended: sendMessage with whitespace-only text changes nothing in
\* every state; it resolves without error when a user is authenticated and
\* rejects with the not-authenticated error when none is.
C6_EmptyInputNoOp ==
    [][(last'.op = "sendMessage" /\ WhitespaceOnly(last'.arg)) =>
          /\ last'.outcome = IF currentUser = NoUser
                             THEN "rejected: User not authenticated"
                             ELSE "resolved"
          /\ last'.emitted = <<>>
          /\ last'.io = <<>>
          /\ UNCHANGED <<subjectMessages, assistantResponding, busyLog, firestore,
                         calls, subs, loadingHistory>>]_vars

C6_Witness ==
    /\ last.op = "sendMessage"
    /\ last.arg = <<Space, Space>>
    /\ last.outcome = "resolved"
    /\ currentUser # NoUser
    /\ subjectMessages # <<>>
    /\ \E c \in CallIds : InFlight(c)

\* C7: clearChat empties the message list at once and emits [] on messages$,
\* whatever is in flight; it calls no storage and leaves the busy flag alone.
C7_ClearResets ==
    [][last'.op = "clearChat" =>
          /\ subjectMessages' = <<>>
          /\ last'.emitted = <<"messages$">>
          /\ last'.io = <<>>
          /\ UNCHANGED <<assistantResponding, busyLog, firestore, calls, subs,
                         loadingHistory>>]_vars

C7_Witness ==
    /\ last.op = "clearChat"
    /\ subjectMessages = <<>>
    /\ assistantResponding
    /\ \E c \in CallIds : calls[c].pc = "saveAssistant"
    /\ Len(firestore) > MaxPrior

\* the whole log in the provider's role vocabulary, nothing dropped
FullOpenAI(log) ==
    [i \in 1..Len(log) |->
        [role |-> IF log[i].type = "assistant" THEN "assistant" ELSE "user",
         content |-> log[i].content]]

FullGemini(log) ==
    [i \in 1..Len(log) |->
        [role |-> IF log[i].type = "assistant" THEN "model" ELSE "user",
         parts |-> << [text |-> log[i].content] >>]]

\* C8 as stated: for every log of at most 2*maxTurns = 12 messages the
\* history converter returns the whole log, in order, only role-mapped.
C8_ShortLogUnchanged12 ==
    Len(winIn) <= 12 =>
        /\ winBy = "openai" => winOut = FullOpenAI(winIn)
        /\ winBy = "gemini" => winOut = FullGemini(winIn)

\* C8 amended: for every log of at most 8 messages the history converter
\* returns the whole log, in order, only role-mapped.
C8_ShortLogUnchanged ==
    Len(winIn) <= 8 =>
        /\ winBy = "openai" => winOut = FullOpenAI(winIn)
        /\ winBy = "gemini" => winOut = FullGemini(winIn)

C8_Witness ==
    /\ winBy = "openai"
    /\ Len(winIn) = 8
    /\ winIn[3].type = "assistant"
    /\ winIn[4].type = "assistant"
    /\ Len(winOut) = 8
    /\ winOut[3].role = "assistant"

\* C9: for every log longer than the threshold, whatever its sequence of
\* roles, the first element of the converter's result is not an assistant
\* ('assistant' / 'model') message.
C9_TurnPairing ==
    (winBy # "none" /\ Len(winIn) > 12 /\ Len(winOut) > 0) =>
        winOut[1].role = "user"

\* C10: the history sendMessage passes to the generation backend is the
\* converter's result for the full message list it has just read; when that
\* list is longer than the threshold it is not a slice of 6 messages that
\* begins with an assistant message.
C10_HistoryIsWindowOfFullLog ==
    last.op = "userSaveSettled" =>
        /\ calls[last.call].history = convertHistoryToOpenAI(subjectMessages)
        /\ Len(subjectMessages) > 8 =>
              ~ (/\ Len(calls[last.call].history) = 6
                 /\ calls[last.call].history[1].role = "assistant")

\* C11: an initializeChat call made while the first call's hydration is in
\* flight opens no subscription, emits nothing and changes neither the list
\* nor the in-flight flag; the flag is cleared when the hydration emits or
\* errors.
C11_InitializeIdempotent ==
    [][/\ (last'.op = "initializeChat" /\ loadingHistory) =>
             /\ last'.io = <<>>
             /\ last'.emitted = <<>>
             /\ last'.outcome = ""
             /\ UNCHANGED <<subs, subjectMessages, loadingHistory,
                            assistantResponding, busyLog, firestore, calls>>
       /\ (last'.op = "initializeChat" /\ ~ loadingHistory) =>
             /\ loadingHistory'
             /\ Len(subs') = Len(subs) + 1
       /\ last'.op \in {"snapshotNext", "snapshotError"} => ~ loadingHistory']_vars

C11_Witness ==
    /\ last.op = "initializeChat"
    /\ last.io = <<>>
    /\ loadingHistory
    /\ Len(subs) = 1
    /\ subs[1].open /\ subs[1].dirty
    /\ subjectMessages # <<>>

\* C12: when the feed signals an error, nothing is rejected or thrown to a
\* caller, the list becomes empty and the in-flight flag false; a
\* sendMessage made afterwards appends its user message and awaits the save
\* as usual.
C12_HydrationFailureNonFatal ==
    [][/\ last'.op = "snapshotError" =>
             /\ subjectMessages' = <<>>
             /\ ~ loadingHistory'
             /\ last'.outcome = ""
             /\ last'.emitted = <<"messages$">>
             /\ UNCHANGED <<calls, assistantResponding, firestore, currentUser>>
       /\ (/\ last.op = "snapshotError"
           /\ last'.op = "sendMessage"
           /\ currentUser # NoUser
           /\ ~ WhitespaceOnly(last'.arg)) =>
             /\ last'.outcome = ""
             /\ last'.io = <<"firestore.saveMessage">>
             /\ Len(subjectMessages') = 1
             /\ subjectMessages'[1].key = <<"user", last'.call>>
             /\ calls'[last'.call].pc = "saveUser"]_vars

C12_Witness ==
    /\ last.op = "sendMessage"
    /\ last.outcome = ""
    /\ Len(subs) = 1
    /\ ~ subs[1].open
    /\ ~ loadingHistory
    /\ Len(subjectMessages) = 1
    /\ subjectMessages[1].type = "user"

\* C13: a failed save of the user message or of the assistant message is
\* swallowed. After a failed user save the busy flag is set and the
\* generation backend is called; after a failed assistant save sendMessage
\* resolves with the assistant message (status 'sent') in the list; neither
\* failure rejects the call, starts the error-message path or touches the
\* list. (A save that failed has written nothing to the store.)
C13_SaveFailureSwallowed ==
    [][/\ (last'.op = "userSaveSettled" /\ firestore' = firestore) =>
             /\ assistantResponding'
             /\ last'.io = <<"openai.sendMessage">>
             /\ last'.outcome = ""
             /\ calls'[last'.call].pc = "generate"
             /\ subjectMessages' = subjectMessages
       /\ (last'.op = "assistantSaveSettled" /\ firestore' = firestore) =>
             /\ last'.outcome = "resolved"
             /\ calls'[last'.call].pc = "settled"
             /\ subjectMessages' = subjectMessages
             /\ (last.op = "generationResolved" /\ last.call = last'.call) =>
                   LET m == subjectMessages'[Len(subjectMessages')]
                   IN  /\ m.key = <<"assistant", last'.call>>
                       /\ m.type = "assistant"
                       /\ m.status = "sent"]_vars

C13_Witness ==
    /\ last.op = "assistantSaveSettled"
    /\ last.outcome = "resolved"
    /\ Len(firestore) = MaxPrior
    /\ Len(subjectMessages) >= 2
    /\ subjectMessages[Len(subjectMessages)].key = <<"assistant", last.call>>
    /\ subjectMessages[Len(subjectMessages)].status = "sent"
    /\ subjectMessages[Len(subjectMessages) - 1].key = <<"user", last.call>>
    /\ ~ assistantResponding

\* C14: when generation fails, sendMessage hands the error message to the
\* persistence adapter (FirestoreService.saveMessage); when the call has
\* settled the error message is either stored or, the save having failed,
\* in the in-memory list; sendMessage rejects with the generation error.
C14_FallbackAndReraise ==
    /\ last.op = "generationRejected" => last.io = <<"firestore.saveMessage">>
    /\ last.op = "errorSaveSettled" =>
          /\ last.outcome = GenerationError(apiKey)
          /\ \/ HasKey(firestore, <<"error", last.call>>)
             \/ HasKey(subjectMessages, <<"error", last.call>>)

\* C15: the feed overwrites the list with loaded history at most once: an
\* emission or error of the feed never replaces a list that already holds
\* loaded history, and never removes a message that sendMessage appended in
\* memory.
C15_HydratedOnce ==
    [][last'.op \in {"snapshotNext", "snapshotError"} =>
          /\ \A i \in 1..Len(subjectMessages) :
                subjectMessages[i].key[1] # "prior"
          /\ \A i \in 1..Len(subjectMessages) :
                subjectMessages[i].id = 0 =>
                    HasKey(subjectMessages', subjectMessages[i].key)]_vars

C19_SendsNotSerialized ==
    \A c \in DOMAIN calls :
        (/\ currentUser # NoUser
         /\ calls[c].pc = "idle"
         /\ \A d \in DOMAIN calls : d < c => calls[d].pc # "idle")
        => ENABLED SendMessage(c, <<Space, "h", Space>>)

C19_Witness ==
    \E i \in 1..Len(subjectMessages) :
        /\ i + 3 <= Len(subjectMessages)
        /\ subjectMessages[i].key = <<"user", 1>>
        /\ subjectMessages[i + 1].key = <<"user", 2>>
        /\ subjectMessages[i + 2].key = <<"assistant", 2>>
        /\ subjectMessages[i + 3].key = <<"assistant", 1>>

\* C20: with overlapping sendMessage calls, every step other than an
\* emission of the feed keeps the list it finds and adds at most one message
\* at its end: an append extends the current list by exactly one element and
\* overwrites nothing. So, as long as the feed has not emitted, the user
\* message of every started call and every stored assistant reply is in the
\* list, also when all calls have settled.
C20_NoLostAppends ==
    [][/\ last'.op # "snapshotNext" =>
             /\ Len(subjectMessages') \in
                   {Len(subjectMessages), Len(subjectMessages) + 1}
             /\ SubSeq(subjectMessages', 1, Len(subjectMessages)) = subjectMessages
       /\ (last'.op = "sendMessage" /\ last'.outcome = "") =>
             subjectMessages' =
                Append(subjectMessages, calls'[last'.call].userMessage)
       /\ last'.op = "generationResolved" =>
             subjectMessages' =
                Append(subjectMessages, calls'[last'.call].assistantMessage)
       /\ (\A i \in 1..Len(subjectMessages') :
               subjectMessages'[i].key[1] # "prior") =>
             \A c \in DOMAIN calls :
                /\ calls'[c].pc # "idle" => HasKey(subjectMessages', <<"user", c>>)
                /\ (\/ calls'[c].pc = "saveAssistant"
                    \/ HasKey(firestore', <<"assistant", c>>))
                   => HasKey(subjectMessages', <<"assistant", c>>)]_vars

C20_Witness ==
    /\ \A c \in DOMAIN calls : calls[c].pc = "settled"
    /\ Len(subjectMessages) = 2 * MaxOverlap
    /\ \A c \in DOMAIN calls :
          /\ HasKey(subjectMessages, <<"user", c>>)
          /\ HasKey(subjectMessages, <<"assistant", c>>)
    /\ subjectMessages[2].key = <<"user", 2>>

\* C21: in every reachable state, if a sendMessage call is awaiting the
\* generation backend then the busy flag is true, also when sends overlap.
C21_BusyCoversGeneration ==
    (\E c \in DOMAIN calls : calls[c].pc = "generate") => assistantResponding


\* C22: when clearChat ran while a sendMessage call was suspended at an
\* await, the next continuation of that call appends nothing: the list that
\* clearChat emptied is still empty after the step.
C22_ClearNotUndone ==
    [][(/\ last.op = "clearChat"
        /\ last'.op \in {"userSaveSettled", "generationResolved",
                         "generationRejected", "assistantSaveSettled",
                         "errorSaveSettled"}
        /\ InFlight(last'.call))
       => subjectMessages' = <<>>]_vars


\* ------------------------------------------------ two users, two listeners
\* SpecFeeds: two users sign in one after the other on the same ChatService;
\* each start of the chat view subscribes for the signed-in user
MaxFeeds == 2

FeedUsers == {"u1", "u2"}

InitFeeds ==
    /\ currentUser = NoUser
    /\ apiKey = "sk-key"
    /\ apiUrl = ConfiguredUrl
    /\ model = ConfiguredModel
    /\ subjectMessages = <<>>
    /\ assistantResponding = FALSE
    /\ busyLog = <<FALSE>>
    /\ loadingHistory = FALSE
    /\ subs = <<>>
    /\ firestore = PriorHistory(MaxPrior)
    /\ calls = [c \in CallIds |-> IdleCall]
    /\ now = ClockStart
    /\ last = Step("init", 0, <<>>, <<>>, "")
    /\ winIn = <<>>
    /\ winOut = <<>>
    /\ winBy = "none"
    /\ httpIn = NoHttp
    /\ httpOut = NoHttp
    /\ httpBy = "none"

NextFeeds ==
    \/ \E u \in FeedUsers : Login(u)
    \/ Logout
    \/ ClearChat
    \/ StartChat(MaxFeeds)
    \/ \E i \in 1..MaxFeeds : SnapshotNext(i)
    \/ \E i \in 1..MaxFeeds : SnapshotError(i)
    \/ \E c \in CallIds, t \in NonBlankTexts : SendMessage(c, t)
    \/ \E c \in CallIds, ok \in BOOLEAN : UserSaveSettles(c, ok)
    \/ \E c \in CallIds, ok \in BOOLEAN : GenerationSettles(c, ok)
    \/ \E c \in CallIds, ok \in BOOLEAN : AssistantSaveSettles(c, ok)
    \/ \E c \in CallIds, ok \in BOOLEAN : ErrorSaveSettles(c, ok)

SpecFeeds == InitFeeds /\ [][NextFeeds]_vars

\* the subscription opened by the latest initializeChat that subscribed
LatestFeed == Len(subs)

\* subscription i was opened for another user than the latest one
IsEarlierUsersFeed(i) ==
    /\ i \in 1..(LatestFeed - 1)
    /\ subs[i].userId # subs[LatestFeed].userId

\* C23: once initializeChat(B) has subscribed after initializeChat(A), at
\* most one subscription is live, and no emission and no error of A's feed
\* changes the message list.
C23_OneLiveFeed ==
    [][\A i \in 1..Len(subs) :
          IsEarlierUsersFeed(i) =>
             /\ ~ subs[i].open
             /\ (last'.op \in {"snapshotNext", "snapshotError"} /\ subs'[i] # subs[i])
                   => subjectMessages' = subjectMessages]_vars


\* C24: whenever isChatReady has returned true, the key check at the head of
\* the adapter's sendMessage passes for the configured key, so a following
\* sendMessage is not rejected locally with 'API Key is not configured'.
C24_ReadyImpliesUsableBackend ==
    (last.op = "isChatReady" /\ last.outcome = "true")
    => /\ ~ apiKeyMissing(apiKey)
       /\ GenerationError(apiKey) # "rejected: OpenAI API Key is not configured"


\* ------------------------------------------------ the request sent to OpenAI
\* the system message that heads every request
SystemMessage == [role |-> "system", content |-> <<"S","y","s">>]

\* OpenAIService.sendMessage: messages = [systemMessage, ...previousHistory,
\* { role: 'user', content: message }]
RequestMessages(message, previousHistory) ==
    <<SystemMessage>> \o previousHistory \o <<[role |-> "user", content |-> message]>>

\* the request built by call c, suspended at the generation await
RequestOf(c) == RequestMessages(calls[c].text, calls[c].history)

\* the positions of a request that are user turns carrying the given text
TurnsCarrying(request, content) ==
    { i \in 1..Len(request) :
         request[i].role = "user" /\ Trim(request[i].content) = content }

\* C25: for a sendMessage call that no other operation interleaves, the
\* request submitted to the provider carries the text of the message being
\* sent exactly once, as its final user turn; the windowed history inside it
\* does not already contain that message.
C25_PromptAppearsOnce ==
    [][(/\ last.op = "sendMessage"
        /\ last.outcome = ""
        /\ last'.op = "userSaveSettled"
        /\ last'.call = last.call)
       => LET c == last'.call
              request == RequestMessages(calls'[c].text, calls'[c].history)
          IN  /\ last'.io = <<"openai.sendMessage">>
              /\ TurnsCarrying(request, calls'[c].userMessage.content) = {Len(request)}]_vars


\* C26: a user message whose save succeeded is not stored with status
\* 'sending', and once its sendMessage call has settled it no longer has
\* status 'sending' in the in-memory list.
C26_StatusLifecycle ==
    /\ \A d \in 1..Len(firestore) : firestore[d].status # "sending"
    /\ last.op \in {"assistantSaveSettled", "errorSaveSettled"} =>
          \A k \in 1..Len(subjectMessages) :
             (/\ subjectMessages[k].key = <<"user", last.call>>
              /\ HasKey(firestore, <<"user", last.call>>))
             => subjectMessages[k].status # "sending"


\* out is the last Len(out) elements of full, in the same order
IsSuffixOf(out, full) ==
    /\ Len(out) <= Len(full)
    /\ out = SubSeq(full, Len(full) - Len(out) + 1, Len(full))

\* C27: a converter leaves its input unmodified and returns a contiguous
\* suffix of it in the original order (role-mapped), so nothing is dropped
\* from the tail; for an input longer than the threshold of 8 the result is
\* the last 6 elements, or the last 5 when the first of those 6 is an
\* assistant message.
C27_WindowShape ==
    [][winBy' # "none" =>
          /\ winIn' = winIn
          /\ winBy' = "openai" => IsSuffixOf(winOut', FullOpenAI(winIn))
          /\ winBy' = "gemini" => IsSuffixOf(winOut', FullGemini(winIn))
          /\ Len(winIn) > 8 =>
                Len(winOut') = IF winIn[Len(winIn) - 5].type = "assistant" THEN 5 ELSE 6]_vars

C27_Witness ==
    /\ winBy = "openai"
    /\ Len(winIn) = 9
    /\ winIn[4].type = "assistant"
    /\ winIn[9].type = "user"
    /\ Len(winOut) = 5
    /\ winOut[5] = [role |-> "user", content |-> winIn[9].content]
    /\ winOut[1].content = winIn[5].content

\* C28: for every log the two converters select the same positions and keep
\* the same text; the results differ only in the label of assistant messages
\* ('model' for Gemini, 'assistant' for OpenAI) and in the wrapping of the
\* text (parts[0].text for Gemini, content for OpenAI).
C28_BackendInterchangeable ==
    winBy # "none" =>
        LET o == IF winBy = "openai" THEN winOut ELSE convertHistoryToOpenAI(winIn)
            g == IF winBy = "gemini" THEN winOut ELSE convertHistoryToGemini(winIn)
        IN  /\ Len(o) = Len(g)
            /\ \A i \in 1..Len(o) :
                  /\ g[i].parts = << [text |-> o[i].content] >>
                  /\ g[i].role = IF o[i].role = "assistant" THEN "model" ELSE "user"
                  /\ o[i].role \in {"assistant", "user"}

C28_Witness ==
    /\ winBy = "gemini"
    /\ Len(winIn) = 10
    /\ winIn[5].type = "assistant"
    /\ winIn[6].type = "assistant"
    /\ Len(winOut) = 5
    /\ winOut[1].role = "model"
    /\ winOut[1].parts[1].text = winIn[6].content
    /\ convertHistoryToOpenAI(winIn)[1] = [role |-> "assistant", content |-> winIn[6].content]


\* ------------------------------------- the adapters' handling of the reply
\* SpecHttp: what the HTTP request of an adapter's sendMessage comes back
\* with, and how sendMessage settles on it
\* error.status of an HttpErrorResponse (0: no connection)
HttpStatuses == {0, 400, 401, 403, 404, 429, 500, 503}

\* error.error?.error?.message ("" when the body carries none)
ProviderMessages == {"", "model overloaded", "quota exceeded"}

HttpErrors ==
    [kind : {"error"}, status : HttpStatuses, providerMessage : ProviderMessages]

\* a 2xx body: choices / candidates missing, empty or with one element; the
\* text of the first element missing, empty or present; its finish reason
HttpResponses ==
    [kind : {"response"}, choices : {"missing", "empty", "one"},
     content : {"missing", "empty", "text"},
     finish : {"stop", "length", "MAX_TOKENS"}]

HttpResults == HttpErrors \cup HttpResponses

\* new Error(message) thrown inside the pipe: no status, no error body
Thrown(message) == [kind |-> "thrown", message |-> message]

\* OpenAIService.sendMessage, map(response => ...)
OpenAIMap(response) ==
    IF response.choices = "one"
    THEN IF response.content = "text"
         THEN [kind |-> "text", truncated |-> response.finish = "length"]
         ELSE Thrown("OpenAI response does not contain valid message content")
    ELSE Thrown("OpenAI response does not have the expected format")

\* OpenAIService.sendMessage, catchError(error => ...)
OpenAICatchError(error) ==
    LET hasStatus == error.kind = "error"
        providerMessage == IF error.kind = "error" THEN error.providerMessage ELSE ""
    IN  IF hasStatus /\ error.status = 400
        THEN "Invalid request to OpenAI. Check the configuration."
        ELSE IF hasStatus /\ error.status = 401
        THEN "Invalid or unauthorized OpenAI API key."
        ELSE IF hasStatus /\ error.status = 429
        THEN "You have exceeded the request limit. Please try again later."
        ELSE IF hasStatus /\ error.status = 500
        THEN "OpenAI server error. Please try again later."
        ELSE IF providerMessage # ""
        THEN providerMessage
        ELSE "Error connecting to OpenAI"

\* OpenAIService.sendMessage: http.post(...).pipe(map, catchError)
OpenAIPipe(result) ==
    LET mapped == IF result.kind = "response" THEN OpenAIMap(result) ELSE result
    IN  IF mapped.kind = "text"
        THEN [kind |-> "resolved", truncated |-> mapped.truncated, message |-> ""]
        ELSE [kind |-> "rejected", truncated |-> FALSE,
              message |-> OpenAICatchError(mapped)]

\* GeminiService.sendMessage, map(response => ...)
GeminiMap(response) ==
    IF response.choices = "one"
    THEN IF response.content \in {"text", "empty"}
         THEN [kind |-> "text", truncated |-> response.finish = "MAX_TOKENS"]
         ELSE Thrown("Gemini response does not contain valid content parts")
    ELSE Thrown("Gemini response does not have the expected format")

\* GeminiService.sendMessage, catchError(error => ...)
GeminiCatchError(error) ==
    LET hasStatus == error.kind = "error"
        providerMessage == IF error.kind = "error" THEN error.providerMessage ELSE ""
    IN  IF hasStatus /\ error.status = 400
        THEN "Invalid request to Gemini. Check the configuration."
        ELSE IF hasStatus /\ error.status = 403
        THEN "Invalid or unauthorized Gemini API key."
        ELSE IF hasStatus /\ error.status = 429
        THEN "You have exceeded the request limit. Please try again later."
        ELSE IF hasStatus /\ error.status = 500
        THEN "Gemini server error. Please try again later."
        ELSE IF providerMessage # ""
        THEN providerMessage
        ELSE "Error connecting to Gemini"

\* GeminiService.sendMessage: http.post(...).pipe(map, catchError)
GeminiPipe(result) ==
    LET mapped == IF result.kind = "response" THEN GeminiMap(result) ELSE result
    IN  IF mapped.kind = "text"
        THEN [kind |-> "resolved", truncated |-> mapped.truncated, message |-> ""]
        ELSE [kind |-> "rejected", truncated |-> FALSE,
              message |-> GeminiCatchError(mapped)]

InitHttp ==
    /\ currentUser = NoUser
    /\ apiKey = "sk-key"
    /\ apiUrl = ConfiguredUrl
    /\ model = ConfiguredModel
    /\ subjectMessages = <<>>
    /\ assistantResponding = FALSE
    /\ busyLog = <<FALSE>>
    /\ loadingHistory = FALSE
    /\ subs = <<>>
    /\ firestore = <<>>
    /\ calls = [c \in CallIds |-> IdleCall]
    /\ now = ClockStart
    /\ last = Step("init", 0, <<>>, <<>>, "")
    /\ winIn = <<>>
    /\ winOut = <<>>
    /\ winBy = "none"
    /\ httpIn \in HttpResults
    /\ httpOut = NoHttp
    /\ httpBy = "none"

OpenAISettles ==
    /\ httpBy = "none"
    /\ httpOut' = OpenAIPipe(httpIn)
    /\ httpBy' = "openai"
    /\ UNCHANGED <<httpIn, chatVars, winVars>>

GeminiSettles ==
    /\ httpBy = "none"
    /\ httpOut' = GeminiPipe(httpIn)
    /\ httpBy' = "gemini"
    /\ UNCHANGED <<httpIn, chatVars, winVars>>

NextHttp == OpenAISettles \/ GeminiSettles

SpecHttp == InitHttp /\ [][NextHttp]_vars

\* the message the claim expects for a failure of the named kind
FixedMessage(by, case) ==
    IF by = "openai"
    THEN CASE case = "400" -> "Invalid request to OpenAI. Check the configuration."
           [] case = "key" -> "Invalid or unauthorized OpenAI API key."
           [] case = "429" -> "You have exceeded the request limit. Please try again later."
           [] case = "500" -> "OpenAI server error. Please try again later."
           [] case = "default" -> "Error connecting to OpenAI"
           [] case = "format" -> "OpenAI response does not have the expected format"
           [] case = "content" -> "OpenAI response does not contain valid message content"
    ELSE CASE case = "400" -> "Invalid request to Gemini. Check the configuration."
           [] case = "key" -> "Invalid or unauthorized Gemini API key."
           [] case = "429" -> "You have exceeded the request limit. Please try again later."
           [] case = "500" -> "Gemini server error. Please try again later."
           [] case = "default" -> "Error connecting to Gemini"
           [] case = "format" -> "Gemini response does not have the expected format"
           [] case = "content" -> "Gemini response does not contain valid content parts"

\* C29: every failure of an adapter's sendMessage rejects with the message
\* the adapter chose: the fixed message for status 400, 401 (OpenAI) or 403
\* (Gemini), 429 and 500, whatever the provider message; else the provider
\* message when there is one; else 'Error connecting to ...'; a response
\* without choices / candidates rejects with '... does not have the expected
\* format' and one without content with '... does not contain valid ...'.
C29_AdapterErrorMapping ==
    httpBy # "none" =>
        LET keyStatus == IF httpBy = "openai" THEN 401 ELSE 403
        IN  /\ httpIn.kind = "error" =>
                 /\ httpOut.kind = "rejected"
                 /\ httpOut.message =
                       IF httpIn.status = 400 THEN FixedMessage(httpBy, "400")
                       ELSE IF httpIn.status = keyStatus THEN FixedMessage(httpBy, "key")
                       ELSE IF httpIn.status = 429 THEN FixedMessage(httpBy, "429")
                       ELSE IF httpIn.status = 500 THEN FixedMessage(httpBy, "500")
                       ELSE IF httpIn.providerMessage # "" THEN httpIn.providerMessage
                       ELSE FixedMessage(httpBy, "default")
            /\ (httpIn.kind = "response" /\ httpIn.choices # "one") =>
                 /\ httpOut.kind = "rejected"
                 /\ httpOut.message = FixedMessage(httpBy, "format")
            /\ (httpIn.kind = "response" /\ httpIn.choices = "one"
                  /\ httpIn.content = "missing") =>
                 /\ httpOut.kind = "rejected"
                 /\ httpOut.message = FixedMessage(httpBy, "content")


\* --------------------------------------------- every awaited call settles
\* SpecSettle: the overlapping sends of SpecOverlap when every awaited save
\* and every generation request eventually settles (resolves or rejects)
FairSettling ==
    \A c \in OverlapIds :
        /\ WF_vars(\E ok \in BOOLEAN : UserSaveSettles(c, ok))
        /\ WF_vars(\E ok \in BOOLEAN : GenerationSettles(c, ok))
        /\ WF_vars(\E ok \in BOOLEAN : AssistantSaveSettles(c, ok))
        /\ WF_vars(\E ok \in BOOLEAN : ErrorSaveSettles(c, ok))

SpecSettle == InitOverlap /\ [][NextOverlap]_vars /\ FairSettling

\* call c is suspended at the await of the generation request
AwaitsGeneration(c) == calls[c].pc = "generate"

\* C30 (settling): when every awaited save and generation settles, every
\* sendMessage call in flight eventually settles, and eventually no call is
\* in flight and the busy flag is false.
C30_EverySendSettles ==
    /\ \A c \in OverlapIds : InFlight(c) ~> ~ InFlight(c)
    /\ (\E c \in OverlapIds : InFlight(c))
          ~> ((\A c \in OverlapIds : ~ InFlight(c)) /\ ~ assistantResponding)

\* C30 (no timeout): a call leaves the await of the generation request only
\* when that request settles, and while the request stays pending the busy
\* flag, once true, stays true.
C30_PendingKeepsBusy ==
    [][\A c \in OverlapIds :
          /\ (AwaitsGeneration(c) /\ ~ AwaitsGeneration(c)') =>
                (last'.op \in {"generationResolved", "generationRejected"}
                   /\ last'.call = c)
          /\ (AwaitsGeneration(c) /\ AwaitsGeneration(c)' /\ assistantResponding) =>
                assistantResponding']_vars

\* C30: sends settle when what they await settles, and a generation request
\* that never settles leaves its call pending and the busy flag true.
C30_SendSettles == C30_EverySendSettles /\ C30_PendingKeepsBusy

====
